---- MODULE Spec2Model ----
(***************************************************************************)
(* Purchase / reservation / download lifecycle of the beats marketplace    *)
(* (main/models.py, main/views.py).                                        *)
(*                                                                         *)
(* The database rows are the state: the Beat rows, the Transaction table,  *)
(* the DownloadHistory table, and the Django session of each buyer.        *)
(* Every view and every public method of the models is one atomic action   *)
(* on the rows; what a view answers is kept in `last` until the response   *)
(* is delivered.  Transaction instances held in memory by a worker (loaded *)
(* with Transaction.objects.get and saved later) are modelled explicitly,  *)
(* because Transaction.save decides on the in-memory completed_at and      *)
(* writes every field of the instance.  For the same reason a payment      *)
(* callback can also be served in two steps, the read of its session and   *)
(* the rest: the session is not locked between the read of the stored beat *)
(* id and the write of the session at the end of the request.              *)
(* Time is counted in minutes; the clock is read every ClockStep minutes.  *)
(***************************************************************************)
EXTENDS Integers, Sequences, FiniteSets, TLC

\* ---------------------------------------------------------------- bounds
\* readings of the clock after the first one
MaxTicks == 2
\* rows the Transaction table can hold
MaxTx == 1
\* rows the DownloadHistory table can hold
MaxHistory == 1
\* callback requests that can be between their session read and their answer
MaxInflight == 1
\* download_count is not raised beyond this value
MaxCount == 2
\* max_downloads of a catalog item is chosen from 1..MaxMaxDownloads
MaxMaxDownloads == 1

\* ------------------------------------------------------ program constants
\* timedelta(minutes=5) in Beat.reserve_for_purchase
ReservationMinutes == 5
\* module-level beat_id_global of views.py, never reassigned
beat_id_global == 0

\* minutes between two readings of the clock
ClockStep == ReservationMinutes

\* primary keys of the Beat rows, of the Buyer rows (one session each), and
\* the request workers that can hold a Transaction instance
Beats == {1}
Buyers == {1, 2}
Workers == {1, 2}

\* None for a nullable DateTimeField
NoTime == -1
\* request.session.get('current_beat_id', None) when the key is absent
NoBeatId == 0
\* no Transaction instance held by a worker
NoTx == 0

BEAT_STATUS == {"available", "reserved", "sold", "downloaded"}
TX_STATUS == {"pending", "completed", "failed", "cancelled"}
\* request.GET.get('status', None): the three branches of payment_response
\* plus the missing parameter
CALLBACK_STATUS == {"successful", "cancelled", "failed", "missing"}

VARIABLES
    beats,        \* Beat rows: status, reserved_until, download_count, max_downloads
    transactions, \* Transaction table, in insertion order
    history,      \* DownloadHistory table, in insertion order
    session,      \* per buyer: request.session['current_beat_id']
    loaded,       \* per worker: the Transaction instance it holds in memory
    inflight,     \* callback requests that have read their session and are
                  \* not yet answered: the buyer and the beat id they read
    now,          \* timezone.now(), in minutes
    last          \* the operation just performed, its inputs and its outcome

vars == <<beats, transactions, history, session, loaded, inflight, now, last>>

\* ------------------------------------------------------------ Beat methods

\* Beat.is_downloadable
is_downloadable(bt) ==
    bt.status \in {"available", "sold"} /\ bt.download_count < bt.max_downloads

\* Beat.mark_as_downloaded
mark_as_downloaded(bt) ==
    LET n == bt.download_count + 1 IN
    [bt EXCEPT !.download_count = n,
               !.status = IF n >= bt.max_downloads THEN "downloaded" ELSE @]

\* reserve_for_purchase without the assignment of reserved_until
reserve_for_purchase_status_only(bt, t) ==
    [bt EXCEPT !.status = "reserved"]

\* Beat.reserve_for_purchase
reserve_for_purchase(bt, t) ==
    [bt EXCEPT !.status = "reserved", !.reserved_until = t + ReservationMinutes]

\* Beat.complete_purchase
complete_purchase(bt) ==
    [bt EXCEPT !.status = "sold", !.reserved_until = NoTime]

\* release_reservation without the expiry test
release_reservation_unconditional(bt, t) ==
    IF bt.status = "reserved"
    THEN [bt EXCEPT !.status = "available", !.reserved_until = NoTime]
    ELSE bt

\* release_reservation without the test of the status
release_reservation_ignoring_status(bt, t) ==
    IF bt.reserved_until # NoTime /\ bt.reserved_until < t
    THEN [bt EXCEPT !.status = "available", !.reserved_until = NoTime]
    ELSE bt

\* Beat.release_reservation
release_reservation(bt, t) ==
    IF bt.status = "reserved" /\ bt.reserved_until # NoTime /\ bt.reserved_until < t
    THEN [bt EXCEPT !.status = "available", !.reserved_until = NoTime]
    ELSE bt

\* Beat.is_available: the row after the lazy sweep, and the answer
is_available(bt, t) ==
    LET swept == release_reservation(bt, t) IN
    [beat |-> swept, result |-> swept.status = "available"]

\* post_save receiver update_beat_download_count (created = True)
update_beat_download_count(bt) ==
    LET n == bt.download_count + 1 IN
    [bt EXCEPT !.download_count = n,
               !.status = IF n >= bt.max_downloads THEN "downloaded" ELSE @]

\* ------------------------------------------------------ Transaction.save

\* Transaction.save calling complete_purchase whatever the status
Transaction_save_completing_any(status, completed_at, bt, t) ==
    [status |-> status, completed_at |-> t, beat |-> complete_purchase(bt)]

\* Transaction.save on an instance with in-memory fields status and
\* completed_at, whose beat row is bt, at time t: the instance fields that
\* are written to the row, and the beat row after the side effect
Transaction_save(status, completed_at, bt, t) ==
    IF status = "completed" /\ completed_at = NoTime
    THEN [status |-> status, completed_at |-> t, beat |-> complete_purchase(bt)]
    ELSE IF status \in {"failed", "cancelled"}
    THEN [status |-> status, completed_at |-> completed_at,
          beat |-> release_reservation(bt, t)]
    ELSE [status |-> status, completed_at |-> completed_at, beat |-> bt]

\* ---------------------------------------------------------- download_beat

\* the purchase check without the buyer filter
has_purchased_any_buyer(txs, u, b) ==
    \E i \in 1..Len(txs) : txs[i].beat = b /\ txs[i].status = "completed"

\* Transaction.objects.filter(buyer=.., beat=.., status='completed').exists()
has_purchased(txs, u, b) ==
    \E i \in 1..Len(txs) :
        /\ txs[i].buyer = u
        /\ txs[i].beat = b
        /\ txs[i].status = "completed"

\* DownloadHistory.objects.create(buyer=.., beat=.., download_count=..):
\* DownloadHistory has the fields beat, buyer and downloaded_at only, so the
\* model constructor rejects the keyword download_count with a TypeError
\* before any row is written and before any post_save receiver runs.
DownloadHistory_create_in_view == "TypeError"

\* download_beat without the os.path.exists test of line 61
download_beat_file_unchecked(txs, u, beat_id, file_exists) ==
    IF beat_id \notin Beats THEN "Http404"
    ELSE IF ~has_purchased(txs, u, beat_id) THEN "NotPurchased"
    ELSE DownloadHistory_create_in_view

\* download_beat(request, beat_id) for the logged-in buyer u, with the
\* Transaction table txs: the response. The view returns or raises before
\* it has written any row: get_object_or_404, the two HttpResponseForbidden
\* (not purchased, file missing), and the failed DownloadHistory.objects.create.
\* file_exists is os.path.exists(beat.audio_file.path) at the time of the call.
download_beat(txs, u, beat_id, file_exists) ==
    IF beat_id \notin Beats THEN "Http404"
    ELSE IF ~has_purchased(txs, u, beat_id) THEN "NotPurchased"
    ELSE IF ~file_exists THEN "AssetMissing"
    ELSE DownloadHistory_create_in_view

\* post_save receiver auto_increment_download_count (created = True):
\* instance.download_count does not exist on a DownloadHistory instance
auto_increment_download_count == "AttributeError"

\* ------------------------------------------------------------ observation

NoRef == -1

\* what a call answered: the view or method, its response or return value, and
\* the beat id it handed to download_beat (NoRef when it did not call it)
Outcome(op, result, ref) == [op |-> op, result |-> result, ref |-> ref]

\* nothing to answer: a method that returns None, or the clock advancing
Idle == Outcome("", "", NoRef)

\* ------------------------------------------------------------------- Init

Init ==
    /\ beats \in [Beats -> [status : {"available"},
                            reserved_until : {NoTime},
                            download_count : {0},
                            max_downloads : 1..MaxMaxDownloads]]
    /\ transactions = <<>>
    /\ history = <<>>
    /\ session = [u \in Buyers |-> NoBeatId]
    /\ loaded = [w \in Workers |->
                    [id |-> NoTx, completed_at |-> NoTime]]
    /\ inflight = {}
    /\ now = 0
    /\ last = Idle

\* ---------------------------------------------------------------- actions

\* no response is pending: the next call can be served
Ready == last = Idle

\* the clock advances
Tick ==
    /\ Ready
    /\ now < MaxTicks * ClockStep
    /\ now' = now + ClockStep
    /\ last' = Idle
    /\ UNCHANGED <<inflight, beats, transactions, history, session, loaded>>

\* beat.reserve_for_purchase()
ReserveForPurchase(b) ==
    /\ Ready
    /\ beats' = [beats EXCEPT ![b] = reserve_for_purchase(beats[b], now)]
    /\ last' = Idle
    /\ UNCHANGED <<inflight, transactions, history, session, loaded, now>>

\* beat.release_reservation()
ReleaseReservation(b) ==
    /\ Ready
    /\ beats' = [beats EXCEPT ![b] = release_reservation(beats[b], now)]
    /\ last' = Idle
    /\ UNCHANGED <<inflight, transactions, history, session, loaded, now>>

\* beat.is_available()
IsAvailable(b) ==
    LET r == is_available(beats[b], now) IN
    /\ Ready
    /\ beats' = [beats EXCEPT ![b] = r.beat]
    /\ last' = Outcome("is_available", IF r.result THEN "True" ELSE "False", NoRef)
    /\ UNCHANGED <<inflight, transactions, history, session, loaded, now>>

\* beat.mark_as_downloaded()
MarkAsDownloaded(b) ==
    /\ Ready
    /\ beats[b].download_count < MaxCount
    /\ beats' = [beats EXCEPT ![b] = mark_as_downloaded(beats[b])]
    /\ last' = Idle
    /\ UNCHANGED <<inflight, transactions, history, session, loaded, now>>

\* DownloadHistory.objects.create(buyer=u, beat=b): the row is inserted, the
\* receiver update_beat_download_count saves the beat, then the receiver
\* auto_increment_download_count raises; both writes are already committed
DownloadHistoryCreate(u, b) ==
    /\ Ready
    /\ Len(history) < MaxHistory
    /\ beats[b].download_count < MaxCount
    /\ history' = Append(history, [buyer |-> u, beat |-> b])
    /\ beats' = [beats EXCEPT ![b] = update_beat_download_count(beats[b])]
    /\ last' = Outcome("DownloadHistory.create", auto_increment_download_count,
                       NoRef)
    /\ UNCHANGED <<inflight, transactions, session, loaded, now>>

\* Transaction.objects.create(buyer=u, beat=b, status=s)
TransactionCreate(u, b, s) ==
    LET r == Transaction_save(s, NoTime, beats[b], now) IN
    /\ Ready
    /\ Len(transactions) < MaxTx
    /\ transactions' = Append(transactions,
           [buyer |-> u, beat |-> b, status |-> r.status,
            completed_at |-> r.completed_at])
    /\ beats' = [beats EXCEPT ![b] = r.beat]
    /\ last' = Idle
    /\ UNCHANGED <<inflight, history, session, loaded, now>>

\* worker w: tx = Transaction.objects.get(pk=id)
TransactionGet(w, id) ==
    /\ Ready
    /\ id \in 1..Len(transactions)
    /\ loaded' = [loaded EXCEPT ![w] =
           [id |-> id, completed_at |-> transactions[id].completed_at]]
    /\ last' = Idle
    /\ UNCHANGED <<inflight, beats, transactions, history, session, now>>

\* worker w: tx.status = s; tx.save()
TransactionSave(w, s) ==
    LET id == loaded[w].id
        b  == transactions[id].beat
        r  == Transaction_save(s, loaded[w].completed_at, beats[b], now) IN
    /\ Ready
    /\ id # NoTx
    /\ loaded' = [loaded EXCEPT ![w] =
           [id |-> id, completed_at |-> r.completed_at]]
    /\ transactions' = [transactions EXCEPT ![id] =
           [@ EXCEPT !.status = r.status, !.completed_at = r.completed_at]]
    /\ beats' = [beats EXCEPT ![b] = r.beat]
    /\ last' = Idle
    /\ UNCHANGED <<inflight, history, session, now>>

\* GET /download of beat_id by buyer u (the view download_beat)
DownloadBeat(u, beat_id, file_exists) ==
    /\ Ready
    /\ last' = Outcome("download_beat",
                       download_beat(transactions, u, beat_id, file_exists), NoRef)
    /\ UNCHANGED <<inflight, beats, transactions, history, session, loaded, now>>

\* purchase_and_download_beat(request, beat_id) in the session of buyer u.
\* gateway_ok: process_payment obtained a payment link; otherwise it raised and
\* the request ends in a server error, whose session is not saved.
PurchaseAndDownloadBeat(u, b, method, gateway_ok) ==
    /\ Ready
    /\ IF method = "POST" /\ ~gateway_ok
       THEN /\ session' = session
            /\ last' = Outcome("purchase_and_download_beat", "GatewayError", NoRef)
       ELSE /\ session' = [session EXCEPT ![u] = b]
            /\ last' = Outcome("purchase_and_download_beat",
                               IF method = "POST" THEN "redirect" ELSE "confirm",
                               NoRef)
    /\ UNCHANGED <<inflight, beats, transactions, history, loaded, now>>

\* payment_response from line 153 on, with the beat id read from the session:
\* the view deletes the session key and branches on status; on "successful"
\* it creates the completed Transaction (whose save marks the beat sold) and
\* then calls download_beat(request, beat_id_global).
\* The session is written back when the response leaves (SessionMiddleware):
\* the whole session of this request, with the key deleted.
payment_response_branch(u, beat_id, status, file_exists) ==
    LET r == Transaction_save("completed", NoTime, beats[beat_id], now) IN
    \/ /\ status = "successful"
       /\ Len(transactions) < MaxTx
       /\ session' = [session EXCEPT ![u] = NoBeatId]
       /\ transactions' = Append(transactions,
              [buyer |-> u, beat |-> beat_id, status |-> r.status,
               completed_at |-> r.completed_at])
       /\ beats' = [beats EXCEPT ![beat_id] = r.beat]
       /\ last' = Outcome("payment_response",
                          download_beat(transactions', u, beat_id_global,
                                        file_exists),
                          beat_id_global)
    \/ /\ status # "successful"
       /\ session' = [session EXCEPT ![u] = NoBeatId]
       /\ last' = Outcome("payment_response",
                          IF status = "cancelled" THEN "PaymentCancelled"
                                                  ELSE "PaymentFailed",
                          NoRef)
       /\ UNCHANGED <<beats, transactions>>

\* payment_response without the test of lines 149-151: get_object_or_404
\* finds no Beat for an absent beat id
payment_response_without_session_test(u, beat_id, status, file_exists) ==
    IF beat_id \notin Beats
    THEN /\ last' = Outcome("payment_response", "Http404", NoRef)
         /\ UNCHANGED <<beats, transactions, session>>
    ELSE payment_response_branch(u, beat_id, status, file_exists)

\* payment_response(request) of buyer u with ?status=, once line 144 has read
\* beat_id from the session: without a beat id the view answers
\* "Invalid payment session" and touches nothing.
payment_response(u, beat_id, status, file_exists) ==
    IF beat_id = NoBeatId
    THEN /\ last' = Outcome("payment_response", "InvalidSession", NoRef)
         /\ UNCHANGED <<beats, transactions, session>>
    ELSE payment_response_branch(u, beat_id, status, file_exists)

\* a callback request of buyer u served from its session read to its answer
\* with no other request in between
PaymentResponse(u, status, file_exists) ==
    /\ Ready
    /\ payment_response(u, session[u], status, file_exists)
    /\ UNCHANGED <<inflight, history, loaded, now>>

\* a callback request of buyer u has read current_beat_id from its session
\* (line 144) while other requests are being served: sessions are not locked,
\* each request works on the copy of the session it loaded
PaymentResponseRead(u) ==
    /\ Ready
    /\ session[u] # NoBeatId
    /\ Cardinality(inflight) < MaxInflight
    /\ inflight' = inflight \cup {[buyer |-> u, beat_id |-> session[u]]}
    /\ last' = Idle
    /\ UNCHANGED <<beats, transactions, history, session, loaded, now>>

\* that request goes on from line 149 with the beat id it read, and is answered
PaymentResponseResume(u, status, file_exists) ==
    /\ Ready
    /\ \E q \in inflight :
          /\ q.buyer = u
          /\ payment_response(u, q.beat_id, status, file_exists)
          /\ inflight' = inflight \ {q}
    /\ UNCHANGED <<history, loaded, now>>

\* the response of the view has been delivered
Respond ==
    /\ ~Ready
    /\ last' = Idle
    /\ UNCHANGED <<inflight, beats, transactions, history, session, loaded, now>>

Next ==
    \/ Tick
    \/ Respond
    \/ \E b \in Beats : ReserveForPurchase(b)
    \/ \E b \in Beats : ReleaseReservation(b)
    \/ \E b \in Beats : IsAvailable(b)
    \/ \E b \in Beats : MarkAsDownloaded(b)
    \/ \E u \in Buyers, b \in Beats : DownloadHistoryCreate(u, b)
    \/ \E u \in Buyers, b \in Beats, s \in TX_STATUS : TransactionCreate(u, b, s)
    \/ \E w \in Workers, id \in 1..MaxTx : TransactionGet(w, id)
    \/ \E w \in Workers, s \in TX_STATUS : TransactionSave(w, s)
    \/ \E u \in Buyers, b \in Beats \cup {beat_id_global}, f \in BOOLEAN :
           DownloadBeat(u, b, f)
    \/ \E u \in Buyers, b \in Beats, m \in {"GET", "POST"}, g \in BOOLEAN :
           PurchaseAndDownloadBeat(u, b, m, g)
    \/ \E u \in Buyers, s \in CALLBACK_STATUS, f \in BOOLEAN :
           PaymentResponse(u, s, f)
    \/ \E u \in Buyers : PaymentResponseRead(u)
    \/ \E u \in Buyers, s \in CALLBACK_STATUS, f \in BOOLEAN :
           PaymentResponseResume(u, s, f)

Spec == Init /\ [][Next]_vars

\* ================================================================= claims

\* a completed Transaction of buyer u for beat b is in the ledger txs
CompletedFor(txs, u, b) ==
    \E i \in 1..Len(txs) :
        txs[i].buyer = u /\ txs[i].beat = b /\ txs[i].status = "completed"

\* C1: for every item, download_count <= max_downloads in every reachable
\* state.
C1_DownloadCountWithinMax ==
    \A b \in Beats : beats[b].download_count <= beats[b].max_downloads

\* C2: a download request that the gate has to serve (completed Transaction of
\* this buyer for this beat, audio file present) adds exactly one
\* DownloadHistory row and raises the beat's download_count by exactly 1, and
\* no step raises a download_count without adding exactly one DownloadHistory
\* row for that beat.
C2_OneRowOneIncrement ==
    [][ /\ \A u \in Buyers, b \in Beats :
             (DownloadBeat(u, b, TRUE) /\ CompletedFor(transactions, u, b))
                 => /\ history' = Append(history, [buyer |-> u, beat |-> b])
                    /\ beats'[b].download_count = beats[b].download_count + 1
        /\ \A b \in Beats :
             beats'[b].download_count # beats[b].download_count
                 => /\ beats'[b].download_count = beats[b].download_count + 1
                    /\ Len(history') = Len(history) + 1
                    /\ history'[Len(history')].beat = b
      ]_vars

\* the reservation of beat row bt is live at time t
LiveReservation(bt, t) ==
    bt.status = "reserved" /\ bt.reserved_until # NoTime /\ ~(bt.reserved_until < t)

\* C3: an attempt to reserve an item that holds a live reservation is answered
\* AlreadyReserved and leaves the reservation of the first caller as it is.
C3_SecondReserveRefused ==
    [][ \A b \in Beats :
            (ReserveForPurchase(b) /\ LiveReservation(beats[b], now))
                => /\ last'.result = "AlreadyReserved"
                   /\ beats'[b] = beats[b]
      ]_vars

\* C4: a save of a Transaction with status completed leaves the referenced
\* item sold (unless it was already downloaded), and completed_at, once set,
\* is never changed by a later save.
C4_CompletedOnce ==
    [][ /\ \A w \in Workers :
             TransactionSave(w, "completed")
                 => LET b == transactions[loaded[w].id].beat IN
                    beats[b].status = "downloaded" \/ beats'[b].status = "sold"
        /\ \A u \in Buyers, b \in Beats :
             TransactionCreate(u, b, "completed")
                 => beats[b].status = "downloaded" \/ beats'[b].status = "sold"
        /\ \A i \in 1..Len(transactions) :
             transactions[i].completed_at # NoTime
                 => transactions'[i].completed_at = transactions[i].completed_at
      ]_vars

\* C5: reserve_for_purchase at time T sets reserved_until to T + 5 minutes, and
\* nothing but a new reservation moves the reserved_until of a reserved item;
\* an is_available check on a reserved item made later than reserved_until
\* returns True and leaves the item available with reserved_until null, and
\* one made before reserved_until returns False and leaves the row as it is.
C5_ReservationExpiry ==
    [][ \A b \in Beats :
          /\ ReserveForPurchase(b)
                => /\ beats'[b].status = "reserved"
                   /\ beats'[b].reserved_until = now + 5
          /\ ( /\ beats[b].status = "reserved"
               /\ beats'[b].status = "reserved"
               /\ beats'[b].reserved_until # beats[b].reserved_until )
                => ReserveForPurchase(b)
          /\ (IsAvailable(b) /\ beats[b].status = "reserved")
                => /\ now > beats[b].reserved_until
                        => /\ last'.result = "True"
                           /\ beats'[b].status = "available"
                           /\ beats'[b].reserved_until = NoTime
                   /\ now < beats[b].reserved_until
                        => /\ last'.result = "False"
                           /\ beats'[b] = beats[b]
      ]_vars

\* an availability check has just answered False for an item whose
\* reservation window has not yet elapsed
C5_Witness ==
    /\ last = Outcome("is_available", "False", NoRef)
    /\ \E b \in Beats : beats[b].status = "reserved" /\ now < beats[b].reserved_until
    /\ now > 0

C7_ExhaustedRefused ==
    [][ \A u \in Buyers, b \in Beats :
            (DownloadBeat(u, b, TRUE) /\ CompletedFor(transactions, u, b))
                => IF is_downloadable(beats[b])
                   THEN last'.result = "delivered"
                   ELSE /\ last'.result = "Exhausted"
                        /\ history' = history
                        /\ beats' = beats
      ]_vars

\* C8: on a successful payment callback the item marked sold and the item
\* handed to download_beat are both the item stored in the session.
C8_CallbackUsesCorrelation ==
    [][ \A u \in Buyers, f \in BOOLEAN :
            (PaymentResponse(u, "successful", f) /\ session[u] # NoBeatId)
                => /\ beats'[session[u]].status = "sold"
                   /\ last'.ref = session[u]
      ]_vars

\* C9: after a callback with status cancelled for a stored correlation the
\* ledger holds a cancelled Transaction for that buyer and item, nothing is
\* delivered, and the item row changes only if its reservation had expired.
C9_CancelledRecorded ==
    [][ \A u \in Buyers, f \in BOOLEAN :
            (PaymentResponse(u, "cancelled", f) /\ session[u] # NoBeatId)
                => LET b == session[u] IN
                   /\ \E i \in 1..Len(transactions') :
                        /\ transactions'[i].buyer = u
                        /\ transactions'[i].beat = b
                        /\ transactions'[i].status = "cancelled"
                   /\ history' = history
                   /\ last'.ref = NoRef
                   /\ beats'[b] # beats[b]
                        => /\ beats[b].status = "reserved"
                           /\ beats[b].reserved_until < now
      ]_vars

\* C10: after a callback whose status is neither successful nor cancelled for
\* a stored correlation the ledger holds a failed Transaction for that buyer
\* and item, the item is not marked sold and nothing is delivered.
C10_FailedRecorded ==
    [][ \A u \in Buyers, f \in BOOLEAN, s \in CALLBACK_STATUS \ {"successful", "cancelled"} :
            (PaymentResponse(u, s, f) /\ session[u] # NoBeatId)
                => LET b == session[u] IN
                   /\ \E i \in 1..Len(transactions') :
                        /\ transactions'[i].buyer = u
                        /\ transactions'[i].beat = b
                        /\ transactions'[i].status = "failed"
                   /\ beats'[b].status = "sold" => beats[b].status = "sold"
                   /\ history' = history
                   /\ last'.ref = NoRef
      ]_vars

\* C11: a stored correlation is resolved once: of the callback deliveries that
\* follow one purchase request, in any interleaving, only the first to be
\* answered finds the correlation and clears it; a delivery answered when the
\* correlation is no longer stored gets the invalid-session error and creates
\* no Transaction nor changes any item.
C11_CorrelationResolvedOnce ==
    [][ \A u \in Buyers, s \in CALLBACK_STATUS, f \in BOOLEAN :
            (PaymentResponse(u, s, f) \/ PaymentResponseResume(u, s, f))
                => IF session[u] = NoBeatId
                   THEN /\ last'.result = "InvalidSession"
                        /\ transactions' = transactions
                        /\ beats' = beats
                   ELSE session'[u] = NoBeatId
      ]_vars

\* C12: a POST purchase request for an available item leaves it reserved with
\* reserved_until = now + 5 minutes and stores the correlation for that item;
\* a POST purchase request for an item with a live reservation is answered
\* AlreadyReserved and stores no correlation.
C12_PurchaseReserves ==
    [][ \A u \in Buyers, b \in Beats :
          /\ (PurchaseAndDownloadBeat(u, b, "POST", TRUE)
                /\ beats[b].status = "available")
                => /\ beats'[b].status = "reserved"
                   /\ beats'[b].reserved_until = now + 5
                   /\ session'[u] = b
          /\ \A g \in BOOLEAN :
                (PurchaseAndDownloadBeat(u, b, "POST", g)
                    /\ LiveReservation(beats[b], now))
                    => /\ last'.result = "AlreadyReserved"
                       /\ session' = session
      ]_vars

\* C13: once a Transaction row has status completed, failed or cancelled, a
\* later save of that Transaction leaves its status as it is, and a later save
\* with a different status leaves every item as it is.
C13_TransactionStatusTerminal ==
    [][ \A w \in Workers, s \in TX_STATUS :
            (TransactionSave(w, s)
                /\ transactions[loaded[w].id].status # "pending")
                => LET id == loaded[w].id IN
                   /\ transactions'[id].status = transactions[id].status
                   /\ s # transactions[id].status => beats' = beats
      ]_vars

\* C14: an item whose status is downloaded keeps that status in every step.
C14_DownloadedTerminal ==
    [][ \A b \in Beats :
            beats[b].status = "downloaded" => beats'[b].status = "downloaded"
      ]_vars

\* C15: in every reachable state an item whose download_count has reached
\* max_downloads has status downloaded.
C15_QuotaReachedIsDownloaded ==
    \A b \in Beats :
        beats[b].download_count >= beats[b].max_downloads
            => beats[b].status = "downloaded"

C17_NoCorrelationNoEffect ==
    [][ last'.op = "payment_response" =>
          \A u \in Buyers, s \in CALLBACK_STATUS, f \in BOOLEAN :
            (session[u] = NoBeatId /\ PaymentResponse(u, s, f))
                => /\ last'.result = "InvalidSession"
                   /\ transactions' = transactions
                   /\ history' = history
                   /\ beats' = beats
      ]_vars

\* a callback of a buyer without stored correlation has just been answered
\* with the invalid-session error, while the purchase of the other buyer is
\* open and the item is still available
C17_Witness ==
    /\ last = Outcome("payment_response", "InvalidSession", NoRef)
    /\ \E u \in Buyers : session[u] = NoBeatId
    /\ \E u \in Buyers : session[u] # NoBeatId
    /\ \A b \in Beats : beats[b].status = "available"

\* C18: in every reachable state an item with status reserved has a non-null
\* reserved_until, and a step that creates a reservation leaves reserved_until
\* at now + 5 minutes, strictly later than the current time.
C18_ReservedHasDeadline ==
    /\ [](\A b \in Beats :
            beats[b].status = "reserved" => beats[b].reserved_until # NoTime)
    /\ [][ \A b \in Beats :
             (ReserveForPurchase(b)
                \/ (beats[b].status # "reserved" /\ beats'[b].status = "reserved"))
                 => /\ beats'[b].reserved_until = now + 5
                    /\ beats'[b].reserved_until > now
         ]_vars

\* a reservation has been created at the current time, after the clock has
\* advanced, on an item that has already been downloaded once
C18_Witness ==
    \E b \in Beats :
        /\ beats[b].status = "reserved"
        /\ beats[b].reserved_until = now + ReservationMinutes
        /\ now > 0
        /\ beats[b].download_count > 0

\* this step saves a Transaction with status completed that references beat b:
\* a new row (Transaction.objects.create, in a view or not) or a loaded one
SavesCompletedFor(b) ==
    \/ /\ Len(transactions') = Len(transactions) + 1
       /\ transactions'[Len(transactions')].beat = b
       /\ transactions'[Len(transactions')].status = "completed"
    \/ \E w \in Workers :
          /\ TransactionSave(w, "completed")
          /\ transactions[loaded[w].id].beat = b

C20_SoldNeverReservedAgain ==
    [][ \A b \in Beats :
          /\ (beats[b].status # "reserved" /\ beats'[b].status = "reserved")
                => beats[b].status = "available"
          /\ beats[b].status = "sold"
                => beats'[b].status \in {"sold", "downloaded"}
      ]_vars

\* C21: a download request of a buyer with a completed Transaction for a
\* downloadable item whose audio file does not exist is answered AssetMissing;
\* it adds no DownloadHistory row and changes no item row.
C21_AssetMissingNoEffect ==
    [][ last'.op = "download_beat" =>
          \A u \in Buyers, b \in Beats :
            (DownloadBeat(u, b, FALSE)
                /\ CompletedFor(transactions, u, b)
                /\ is_downloadable(beats[b]))
                => /\ last'.result = "AssetMissing"
                   /\ history' = history
                   /\ beats' = beats
      ]_vars

\* a download request has just been refused for the missing file, while the
\* item is sold to the buyer and still downloadable
C21_Witness ==
    /\ last = Outcome("download_beat", "AssetMissing", NoRef)
    /\ \E i \in 1..Len(transactions) :
          /\ transactions[i].status = "completed"
          /\ is_downloadable(beats[transactions[i].beat])

\* C22: in every reachable state an item with a non-null reserved_until has
\* status reserved.
C22_DeadlineOnlyWhenReserved ==
    \A b \in Beats :
        beats[b].reserved_until # NoTime => beats[b].status = "reserved"

====
